---------------------------- MODULE Spec2Model ----------------------------
(***************************************************************************)
(* Model of src/disposcraper.py: the category walker main(), the page      *)
(* stabilizer (handle_age_gate, scroll_to_load_all) and the field          *)
(* extractor scrape_page_products, driven against a mocked rendering       *)
(* capability whose answers (heights, cards, texts, failures) are the      *)
(* nondeterministic inputs of the actions.  The earlier single-category    *)
(* script src/disproscraperbackup.py is not modelled.                      *)
(*                                                                         *)
(* Texts are sequences of one-character strings, so that the regular       *)
(* expressions and the string formatting of the source are computed        *)
(* character by character.                                                 *)
(***************************************************************************)
EXTENDS Integers, Sequences, FiniteSets, TLC

(***************************************************************************)
(* Bounds of the model.                                                    *)
(***************************************************************************)
MaxHeight == 2      \* page heights are measured in 0..MaxHeight
MaxCards == 3       \* cards served by one category page
MaxPriceEls == 2    \* price-tagged elements of one card (price fixtures)
MaxRecords == 4     \* accumulated records handed to the merge (merge fixtures)

(***************************************************************************)
(* Characters and Python's str helpers.                                    *)
(***************************************************************************)
DigitChars == <<"0", "1", "2", "3", "4", "5", "6", "7", "8", "9">>

IsDigit(c) == \E i \in 1..Len(DigitChars) : DigitChars[i] = c

DigitVal(c) == (CHOOSE i \in 1..Len(DigitChars) : DigitChars[i] = c) - 1

UpperChars == <<"A", "B", "K", "U">>
LowerChars == <<"a", "b", "k", "u">>

\* str.lower(), one character
LowerChar(c) ==
    IF \E i \in 1..Len(UpperChars) : UpperChars[i] = c
    THEN LowerChars[CHOOSE i \in 1..Len(UpperChars) : UpperChars[i] = c]
    ELSE c

\* str.lower()
Lower(s) == [i \in 1..Len(s) |-> LowerChar(s[i])]

IsSpace(c) == c = " "

\* str.strip()
Strip(s) ==
    LET keep == {i \in 1..Len(s) : ~IsSpace(s[i])}
    IN  IF keep = {} THEN << >>
        ELSE LET lo == CHOOSE i \in keep : \A j \in keep : i <= j
                 hi == CHOOSE i \in keep : \A j \in keep : j <= i
             IN  SubSeq(s, lo, hi)

\* str.startswith(prefix)
StartsWith(s, prefix) ==
    /\ Len(prefix) <= Len(s)
    /\ SubSeq(s, 1, Len(prefix)) = prefix

\* "." in s
HasDot(s) == \E i \in 1..Len(s) : s[i] = "."

\* s.split(".")[0]
BeforeDot(s) ==
    LET d == CHOOSE i \in 1..Len(s) : s[i] = "." /\ \A j \in 1..(i - 1) : s[j] # "."
    IN  SubSeq(s, 1, d - 1)

\* s.split(".")[1]: the text between the first dot and the next one (or the end)
AfterDot(s) ==
    LET d == CHOOSE i \in 1..Len(s) : s[i] = "." /\ \A j \in 1..(i - 1) : s[j] # "."
        later == {i \in (d + 1)..Len(s) : s[i] = "."}
        e == IF later = {} THEN Len(s) + 1
             ELSE CHOOSE i \in later : \A j \in later : i <= j
    IN  SubSeq(s, d + 1, e - 1)

\* s[:2].ljust(2, "0")
TwoDigits(s) ==
    IF Len(s) >= 2 THEN SubSeq(s, 1, 2)
    ELSE IF Len(s) = 1 THEN s \o <<"0">>
    ELSE <<"0", "0">>

(***************************************************************************)
(* The regular expressions of the price logic.                             *)
(***************************************************************************)
\* the last index of the run of digits of s that starts at i (i - 1 if none)
RECURSIVE DigitRunEnd(_, _)
DigitRunEnd(s, i) ==
    IF i <= Len(s) /\ IsDigit(s[i]) THEN DigitRunEnd(s, i + 1) ELSE i - 1

\* the last index of the greedy match of \d+\.?\d* that starts at i
AmountEnd(s, i) ==
    LET a == DigitRunEnd(s, i)
    IN  IF a + 1 <= Len(s) /\ s[a + 1] = "."
        THEN DigitRunEnd(s, a + 2)
        ELSE a

\* the positions at which \$\d+\.?\d* matches
DollarStarts(s) == {i \in 1..(Len(s) - 1) : s[i] = "$" /\ IsDigit(s[i + 1])}

NoMatch == [found |-> FALSE, whole |-> << >>, val |-> << >>]

\* re.search(r"\$(\d+\.?\d*)", s): whole is group(0), val is group(1)
SearchDollar(s) ==
    IF DollarStarts(s) = {} THEN NoMatch
    ELSE LET i == CHOOSE k \in DollarStarts(s) : \A j \in DollarStarts(s) : k <= j
             e == AmountEnd(s, i + 1)
         IN  [found |-> TRUE, whole |-> SubSeq(s, i, e), val |-> SubSeq(s, i + 1, e)]

PricePrefix == <<"p", "r", "i", "c", "e", "-">>

\* the positions at which price-\d+\.?\d* matches
SuffixStarts(s) ==
    {i \in 1..(Len(s) - Len(PricePrefix)) :
        /\ SubSeq(s, i, i + Len(PricePrefix) - 1) = PricePrefix
        /\ IsDigit(s[i + Len(PricePrefix)])}

\* re.search(r"price-(\d+\.?\d*)", testid)
SearchPriceSuffix(s) ==
    IF SuffixStarts(s) = {} THEN NoMatch
    ELSE LET i == CHOOSE k \in SuffixStarts(s) : \A j \in SuffixStarts(s) : k <= j
             b == i + Len(PricePrefix)
             e == AmountEnd(s, b)
         IN  [found |-> TRUE, whole |-> SubSeq(s, i, e), val |-> SubSeq(s, b, e)]

(***************************************************************************)
(* Cards as the mocked renderer serves them.  brand and name are the       *)
(* brand and name elements (El(text)), or NoEl when query_selector finds   *)
(* none; prices are the elements matching the price/discount selector, in  *)
(* document order, each with its inner text and its data-testid; other is  *)
(* visible card text outside those elements; fault names the read that     *)
(* raises ("none": no read raises).                                        *)
(***************************************************************************)
NoEl == [el |-> FALSE, text |-> << >>]

El(t) == [el |-> TRUE, text |-> t]

Faults == {"none", "brand", "name", "price", "text", "image"}

Sentinel == <<"U", "n", "k", "n", "o", "w", "n">>       \* "Unknown"

ZeroPrice == <<"$", "0", ".", "0", "0">>                \* "$0.00"

\* card.inner_text(): the visible text of the card's elements, one per line
RECURSIVE JoinTexts(_)
JoinTexts(els) ==
    IF els = << >> THEN << >>
    ELSE <<"\n">> \o Head(els).text \o JoinTexts(Tail(els))

CardText(card) ==
    card.brand.text \o <<"\n">> \o card.name.text \o <<"\n">>
    \o card.other \o JoinTexts(card.prices)

\* lines 91-97: "Standardize to $XX.XX"
Standardize(val) ==
    IF HasDot(val)
    THEN <<"$">> \o BeforeDot(val) \o <<".">> \o TwoDigits(AfterDot(val))
    ELSE <<"$">> \o val \o <<".", "0", "0">>

\* lines 76-88: the match one price-tagged element yields
ElementMatch(el) ==
    LET text == Strip(el.text)
        combined_source == text \o <<" ">> \o el.testid
        m == SearchDollar(combined_source)
    IN  IF m.found THEN m ELSE SearchPriceSuffix(el.testid)

\* lines 74-101 (Step A): the elements from i on, price being the value so far
RECURSIVE StepA(_, _, _)
StepA(els, i, price) ==
    IF i > Len(els) THEN [price |-> price, price_found |-> FALSE]
    ELSE LET m == ElementMatch(els[i])
         IN  IF m.found
             THEN LET p == Standardize(m.val)
                  IN  IF p # ZeroPrice
                      THEN [price |-> p, price_found |-> TRUE]
                      ELSE StepA(els, i + 1, p)
             ELSE StepA(els, i + 1, price)

\* lines 104-109 (Step B): the whole-card fallback
StepB(card, price) ==
    LET price_match == SearchDollar(CardText(card))
    IN  IF price_match.found
        THEN IF HasDot(price_match.whole) THEN price_match.whole
             ELSE price_match.whole \o <<".", "0", "0">>
        ELSE price

\* lines 67-109: "4. Get Price (Robust Logic)"
GetPrice(card) ==
    LET a == StepA(card.prices, 1, ZeroPrice)
    IN  IF a.price_found THEN a.price ELSE StepB(card, a.price)

\* lines 58-59: the name as resolved
ResolveName(card) == IF card.name.el THEN Strip(card.name.text) ELSE Sentinel

\* lines 54-55
ResolveBrand(card) == IF card.brand.el THEN Strip(card.brand.text) ELSE << >>

\* lines 61-65: "3. Clean Duplicate Brand Names"
FullName(brand, name) ==
    IF brand # << >> /\ ~StartsWith(Lower(name), Lower(brand))
    THEN brand \o <<" ", "-", " ">> \o name
    ELSE name

\* mutant: the append is not guarded
UsableAlways(name) == TRUE

\* line 121: the guard of the append
Usable(name) == name # Sentinel

\* lines 52-131: one iteration of the loop over the cards.  The record keeps
\* the fields name, price and category; meta and image are read (and may
\* raise) but their values are not modelled.
ExtractCard(card, category_label) ==
    IF card.fault # "none" THEN [outcome |-> "fault"]
    ELSE LET name == ResolveName(card)
         IN  IF Usable(name)
             THEN [outcome |-> "record",
                   rec |-> [name |-> FullName(ResolveBrand(card), name),
                            price |-> GetPrice(card),
                            category |-> category_label]]
             ELSE [outcome |-> "unusable"]

(***************************************************************************)
(* The merge of main(), line 165: a dict keyed by name keeps the position  *)
(* of a name's first occurrence and the value of its last one.             *)
(***************************************************************************)
\* mutant: d.setdefault(p['name'], p), the first record of a name is kept
DictPutFirst(d, p) ==
    IF \E i \in 1..Len(d) : d[i].name = p.name THEN d ELSE Append(d, p)

\* d[p['name']] = p
DictPut(d, p) ==
    IF \E i \in 1..Len(d) : d[i].name = p.name
    THEN [i \in 1..Len(d) |-> IF d[i].name = p.name THEN p ELSE d[i]]
    ELSE Append(d, p)

RECURSIVE DictOf(_, _)
DictOf(recs, d) ==
    IF recs = << >> THEN d ELSE DictOf(Tail(recs), DictPut(d, Head(recs)))

\* list({p['name']: p for p in all_products}.values())
MergeByName(recs) == DictOf(recs, << >>)

(***************************************************************************)
(* Configuration, lines 7-12.                                              *)
(***************************************************************************)
CATEGORIES == <<"FLOWER", "PRE-ROLLS", "VAPORIZERS">>

NumCategories == Len(CATEGORIES)

Cats == 1..NumCategories

(***************************************************************************)
(* The mocked renderer's answers.                                          *)
(***************************************************************************)
Heights == 0..MaxHeight

\* the scroll commands the mock answers for one page; a page that grows
\* monotonically within Heights stabilizes earlier
MaxScrolls == MaxHeight + 1

SeqsUpTo(S, n) == UNION {[1..k -> S] : k \in 0..n}

PriceEl(text, testid) == [text |-> text, testid |-> testid]

TestIdPrice == <<"p", "r", "i", "c", "e">>
TestIdPrice45 == <<"v", "-", "p", "r", "i", "c", "e", "-", "4", "5">>
TestIdDiscount == <<"d", "i", "s", "c", "o", "u", "n", "t">>

T45 == <<"$", "4", "5">>
T45d5 == <<"$", "4", "5", ".", "5">>
T45dot == <<"$", "4", "5", ".">>
T45d123 == <<" ", "$", "4", "5", ".", "1", "2", "3", " ">>
T50 == <<"$", "5", "0", ".", "0", "0">>
T40 == <<"n", "o", "w", " ", "$", "4", "0", ".", "0", "0">>
T0 == <<"$", "0">>
TNone == << >>

NameA == <<"a">>
NameB == <<"b">>
NameAB == <<"a", " ", "b">>
NamePadded == <<" ", "b", " ">>
BrandA == <<"A">>

Card(brand, name, prices, other, fault) ==
    [brand |-> brand, name |-> name, prices |-> prices, other |-> other,
     fault |-> fault]

\* the cards the category pages of a run serve
RunCards ==
    { Card(NoEl, El(NameA), <<PriceEl(T45, TestIdPrice)>>, << >>, "none"),
      Card(NoEl, NoEl, <<PriceEl(T45, TestIdPrice)>>, << >>, "none"),
      Card(NoEl, El(NameA), <<PriceEl(T45, TestIdPrice)>>, << >>, "image") }

\* cards that differ in brand, name and failing read
NameCards ==
    { Card(NoEl, El(NameB), <<PriceEl(T45, TestIdPrice)>>, << >>, "none"),
      Card(El(BrandA), El(NamePadded), <<PriceEl(T45, TestIdPrice)>>, << >>, "none"),
      Card(El(BrandA), El(NameAB), <<PriceEl(T45, TestIdPrice)>>, << >>, "none"),
      Card(El(BrandA), NoEl, <<PriceEl(T45, TestIdPrice)>>, << >>, "none"),
      Card(NoEl, El(Sentinel), <<PriceEl(T45, TestIdPrice)>>, << >>, "none"),
      Card(NoEl, El(NameB), <<PriceEl(T45, TestIdPrice)>>, << >>, "image"),
      Card(NoEl, NoEl, <<PriceEl(T45, TestIdPrice)>>, << >>, "price") }

PriceTexts == {T45, T45d5, T45dot, T45d123, T50, T40, T0, TNone}

PriceTestIds == {TestIdPrice45, TestIdDiscount}

OtherTexts == {TNone, T45d5, T45}

\* cards that differ in their price evidence
PriceCards ==
    { Card(NoEl, El(NameB), prices, other, "none") :
        prices \in SeqsUpTo({PriceEl(t, id) : t \in PriceTexts, id \in PriceTestIds},
                            MaxPriceEls),
        other \in OtherTexts }

Canon45 == <<"$", "4", "5", ".", "0", "0">>

\* accumulated records that differ in name and category
MergeRecords ==
    { [name |-> n, price |-> Canon45, category |-> CATEGORIES[c]] :
        n \in {NameA, NameB, NameAB}, c \in 1..2 }

(***************************************************************************)
(* State.                                                                  *)
(***************************************************************************)
VARIABLES
    pc,                 \* the statement main() is at
    playwright,         \* the async_playwright() context: "running" / "stopped"
    browser,            \* "none" / "open" / "closed" (browser.close() awaited)
    idx,                \* index in CATEGORIES of the loop variable category
    all_products,       \* main(): the accumulated records
    unique_products,    \* main(): the merged records
    output,             \* the records written to OUTPUT_FILE (<<>> before)
    last_height,        \* scroll_to_load_all(): last_height
    cards,              \* scrape_page_products(): cards
    ci,                 \* scrape_page_products(): position of the loop over cards
    products,           \* scrape_page_products(): products
    mono,               \* mock: the loaded page never shrinks
    hist,               \* mock: the heights measured on the loaded page
    scrolls,            \* mock: scroll-to-bottom commands issued on the page
    attempts,           \* log: navigations started, per category
    steps,              \* log: the steps started, per category, in order
    raised,             \* log: the step of a category that raised ("none")
    extracted,          \* log: what scrape_page_products returned, per category
    writes              \* log: completed writes of OUTPUT_FILE

vars == <<pc, playwright, browser, idx, all_products, unique_products, output,
          last_height, cards, ci, products, mono, hist, scrolls,
          attempts, steps, raised, extracted, writes>>

session == <<playwright, browser>>
catalog == <<all_products, unique_products, output, writes>>
scrollVars == <<last_height, hist, scrolls>>
scrapeVars == <<cards, ci, products>>
logVars == <<attempts, steps, raised, extracted>>

StepOrder == <<"goto", "gate", "wait", "scroll", "extract">>

Init ==
    /\ pc = "launch"
    /\ playwright = "running"
    /\ browser = "none"
    /\ idx = 1
    /\ all_products = << >>
    /\ unique_products = << >>
    /\ output = << >>
    /\ last_height = 0
    /\ cards = << >>
    /\ ci = 1
    /\ products = << >>
    /\ mono = TRUE
    /\ hist = << >>
    /\ scrolls = 0
    /\ attempts = [c \in Cats |-> 0]
    /\ steps = [c \in Cats |-> << >>]
    /\ raised = [c \in Cats |-> "none"]
    /\ extracted = [c \in Cats |-> << >>]
    /\ writes = 0

\* an exception leaves the "async with" block: the context manager stops the
\* driver, browser.close() (line 170) is not awaited
Crash ==
    /\ pc' = "crashed"
    /\ playwright' = "stopped"

\* line 136
Launch ==
    /\ pc = "launch"
    /\ \/ /\ browser' = "open"
          /\ pc' = "new_context"
          /\ UNCHANGED playwright
       \/ /\ Crash
          /\ UNCHANGED browser
    /\ UNCHANGED <<idx, catalog, scrollVars, scrapeVars, mono, logVars>>

\* lines 137-142
NewContext ==
    /\ pc = "new_context"
    /\ \/ /\ pc' = IF NumCategories = 0 THEN "merge" ELSE "goto"
          /\ UNCHANGED playwright
       \/ Crash
    /\ UNCHANGED <<browser, idx, catalog, scrollVars, scrapeVars, mono, logVars>>

\* the locals of scroll_to_load_all go out of scope, and the mock's log of
\* the page with them
DropScroll ==
    /\ last_height' = 0
    /\ hist' = << >>
    /\ scrolls' = 0
    /\ mono' = TRUE

\* the locals of scroll_to_load_all and scrape_page_products go out of scope
DropLocals ==
    /\ DropScroll
    /\ cards' = << >>
    /\ ci' = 1
    /\ products' = << >>

\* line 144: the for loop takes the next category, or ends
NextCategory ==
    /\ idx' = idx + 1
    /\ pc' = IF idx + 1 > NumCategories THEN "merge" ELSE "goto"

\* mutant: the except clause ends the loop (break)
OnCategoryErrorBreak ==
    /\ idx' = idx
    /\ pc' = "merge"
    /\ DropLocals

\* mutant: the except clause tries the category again
OnCategoryErrorRetry ==
    /\ idx' = idx
    /\ pc' = "goto"
    /\ DropLocals

\* lines 161-162: the except clause logs, and the loop goes on
OnCategoryError ==
    /\ NextCategory
    /\ DropLocals

Started(step) == steps' = [steps EXCEPT ![idx] = Append(@, step)]

\* line 147
Goto ==
    /\ pc = "goto"
    /\ attempts' = [attempts EXCEPT ![idx] = @ + 1]
    /\ Started("goto")
    /\ \/ /\ pc' = "gate"
          /\ mono' \in BOOLEAN
          /\ UNCHANGED <<session, idx, catalog, scrollVars, scrapeVars, raised,
                         extracted>>
       \/ /\ raised' = [raised EXCEPT ![idx] = "goto"]
          /\ OnCategoryError
          /\ UNCHANGED <<session, catalog, extracted>>

\* lines 14-26 and 148: handle_age_gate never raises, its result is dropped
AgeGate ==
    /\ pc = "gate"
    /\ Started("gate")
    /\ \E gate \in {"clicked", "absent", "error"} : pc' = "wait"
    /\ UNCHANGED <<session, idx, catalog, scrollVars, scrapeVars, mono, attempts,
                   raised, extracted>>

\* lines 151-154
WaitReady ==
    /\ pc = "wait"
    /\ \/ /\ Started("wait")
          /\ pc' = "scroll_enter"
          /\ UNCHANGED <<session, idx, catalog, scrollVars, scrapeVars, mono,
                         attempts, raised, extracted>>
       \/ /\ Started("wait")
          /\ raised' = [raised EXCEPT ![idx] = "wait"]
          /\ OnCategoryError
          /\ UNCHANGED <<session, catalog, attempts, extracted>>

\* lines 156 and 30-31: the first measurement
ScrollEnter ==
    /\ pc = "scroll_enter"
    /\ Started("scroll")
    /\ \/ /\ \E h \in Heights :
                /\ last_height' = h
                /\ hist' = <<h>>
          /\ scrolls' = 0
          /\ pc' = "scroll"
          /\ UNCHANGED <<session, idx, catalog, scrapeVars, mono, attempts,
                         raised, extracted>>
       \/ /\ raised' = [raised EXCEPT ![idx] = "scroll"]
          /\ OnCategoryError
          /\ UNCHANGED <<session, catalog, attempts, extracted>>

\* mutant: the loop stops as soon as the page did not grow
ScrollDoneNoGrowth(new_height, last) == new_height <= last

\* mutant: the exit test never succeeds
ScrollDoneNever(new_height, last) == FALSE

\* line 36: the exit test of the loop
ScrollDone(new_height, last) == new_height = last

\* lines 32-38: one iteration of the while loop
ScrollIter ==
    /\ pc = "scroll"
    /\ scrolls < MaxScrolls
    /\ \/ /\ scrolls' = scrolls + 1
          /\ \E new_height \in Heights :
                /\ mono => new_height >= last_height
                /\ hist' = Append(hist, new_height)
                /\ IF ScrollDone(new_height, last_height)
                   THEN /\ pc' = "query"
                        /\ UNCHANGED last_height
                   ELSE /\ pc' = "scroll"
                        /\ last_height' = new_height
          /\ UNCHANGED <<session, idx, catalog, scrapeVars, mono, logVars>>
       \/ /\ raised' = [raised EXCEPT ![idx] = "scroll"]
          /\ OnCategoryError
          /\ UNCHANGED <<session, catalog, attempts, steps, extracted>>

\* lines 157 and 42-49: the cards of the page, by the outer-card selector if
\* the product-card selector finds none
QueryCards ==
    /\ pc = "query"
    /\ Started("extract")
    /\ \/ /\ \E primary \in SeqsUpTo(RunCards, MaxCards) :
                IF primary # << >> THEN cards' = primary
                ELSE \E fallback \in SeqsUpTo(RunCards, MaxCards) : cards' = fallback
          /\ ci' = 1
          /\ products' = << >>
          /\ pc' = "extract"
          /\ DropScroll
          /\ UNCHANGED <<session, idx, catalog, attempts, raised, extracted>>
       \/ /\ raised' = [raised EXCEPT ![idx] = "extract"]
          /\ OnCategoryError
          /\ UNCHANGED <<session, catalog, attempts, extracted>>

\* mutant: the loop body has no try/except, a raising read ends the category
ScrapeCardPropagates ==
    /\ pc = "extract"
    /\ ci <= Len(cards)
    /\ IF cards[ci].fault # "none"
       THEN /\ raised' = [raised EXCEPT ![idx] = "extract"]
            /\ OnCategoryError
            /\ UNCHANGED <<session, catalog, attempts, steps, extracted>>
       ELSE /\ LET r == ExtractCard(cards[ci], CATEGORIES[idx])
               IN  products' = IF r.outcome = "record" THEN Append(products, r.rec)
                               ELSE products
            /\ ci' = ci + 1
            /\ UNCHANGED <<pc, session, idx, catalog, scrollVars, cards, mono,
                           logVars>>

\* lines 51-131: one card
ScrapeCard ==
    /\ pc = "extract"
    /\ ci <= Len(cards)
    /\ LET r == ExtractCard(cards[ci], CATEGORIES[idx])
       IN  products' = IF r.outcome = "record" THEN Append(products, r.rec)
                       ELSE products
    /\ ci' = ci + 1
    /\ UNCHANGED <<pc, session, idx, catalog, scrollVars, cards, mono, logVars>>

\* lines 132 and 157-159: the products are returned and accumulated
ScrapeReturn ==
    /\ pc = "extract"
    /\ ci > Len(cards)
    /\ all_products' = all_products \o products
    /\ extracted' = [extracted EXCEPT ![idx] = products]
    /\ NextCategory
    /\ DropLocals
    /\ UNCHANGED <<session, unique_products, output, writes, attempts, steps,
                   raised>>

\* line 165
Merge ==
    /\ pc = "merge"
    /\ unique_products' = MergeByName(all_products)
    /\ pc' = "write"
    /\ UNCHANGED <<session, idx, all_products, output, writes, scrollVars,
                   scrapeVars, mono, logVars>>

\* lines 166-169
WriteOutput ==
    /\ pc = "write"
    /\ \/ /\ output' = unique_products
          /\ writes' = writes + 1
          /\ pc' = "close"
          /\ UNCHANGED playwright
       \/ /\ Crash
          /\ UNCHANGED <<output, writes>>
    /\ UNCHANGED <<browser, idx, all_products, unique_products, scrollVars,
                   scrapeVars, mono, logVars>>

\* line 170, then the end of the "async with" block
CloseBrowser ==
    /\ pc = "close"
    /\ browser' = "closed"
    /\ playwright' = "stopped"
    /\ pc' = "done"
    /\ UNCHANGED <<idx, catalog, scrollVars, scrapeVars, mono, logVars>>

Next ==
    \/ Launch
    \/ NewContext
    \/ Goto
    \/ AgeGate
    \/ WaitReady
    \/ ScrollEnter
    \/ ScrollIter
    \/ QueryCards
    \/ ScrapeCard
    \/ ScrapeReturn
    \/ Merge
    \/ WriteOutput
    \/ CloseBrowser

Spec == Init /\ [][Next]_vars

(***************************************************************************)
(* The field extractor and the merge on fixtures: the run is at the        *)
(* extraction of its last category (the earlier ones failed to load), or   *)
(* at the merge, with cards and records drawn from the fixture sets.       *)
(***************************************************************************)
AtLastCategory ==
    /\ playwright = "running"
    /\ browser = "open"
    /\ unique_products = << >>
    /\ output = << >>
    /\ last_height = 0
    /\ mono = TRUE
    /\ hist = << >>
    /\ scrolls = 0
    /\ attempts = [c \in Cats |-> 1]
    /\ writes = 0

ExtractInit ==
    /\ AtLastCategory
    /\ pc = "extract"
    /\ idx = NumCategories
    /\ all_products = << >>
    /\ cards \in SeqsUpTo(NameCards, MaxCards) \cup {<<c>> : c \in PriceCards}
    /\ ci = 1
    /\ products = << >>
    /\ steps = [c \in Cats |-> IF c = NumCategories THEN StepOrder ELSE <<"goto">>]
    /\ raised = [c \in Cats |-> IF c = NumCategories THEN "none" ELSE "goto"]
    /\ extracted = [c \in Cats |-> << >>]

ExtractNext ==
    \/ ScrapeCard
    \/ ScrapeReturn
    \/ Merge
    \/ WriteOutput
    \/ CloseBrowser

ExtractSpec == ExtractInit /\ [][ExtractNext]_vars

CategoryIndex(label) == CHOOSE c \in Cats : CATEGORIES[c] = label

\* the records of one category within an accumulated list
OfCategory(recs, c) == SelectSeq(recs, LAMBDA r : r.category = CATEGORIES[c])

\* accumulated lists hold the categories' records in configuration order
InCategoryOrder(recs) ==
    \A i, j \in 1..Len(recs) :
        i < j => CategoryIndex(recs[i].category) <= CategoryIndex(recs[j].category)

MergeInit ==
    /\ AtLastCategory
    /\ pc = "merge"
    /\ idx = NumCategories + 1
    /\ all_products \in {l \in SeqsUpTo(MergeRecords, MaxRecords) : InCategoryOrder(l)}
    /\ cards = << >>
    /\ ci = 1
    /\ products = << >>
    /\ steps = [c \in Cats |-> StepOrder]
    /\ raised = [c \in Cats |-> "none"]
    /\ extracted = [c \in Cats |-> OfCategory(all_products, c)]

MergeNext ==
    \/ Merge
    \/ WriteOutput
    \/ CloseBrowser

MergeSpec == MergeInit /\ [][MergeNext]_vars

(***************************************************************************)
(* The run under the scheduling of the event loop: main() is the only      *)
(* coroutine and every await of the scroll loop returns or raises, so an   *)
(* iteration of the loop that can be taken is taken.                       *)
(***************************************************************************)
LiveSpec == Spec /\ WF_vars(ScrollIter)

(***************************************************************************)
(* Properties.                                                             *)
(***************************************************************************)
InLoop == pc \in {"goto", "gate", "wait", "scroll_enter", "scroll", "query", "extract"}

AfterLoop == pc \in {"merge", "write", "close", "done"}

\* the records the categories before c handed over, in configuration order
RECURSIVE Handed(_)
Handed(c) ==
    IF c = 0 THEN << >>
    ELSE Handed(c - 1) \o (IF raised[c] = "none" THEN extracted[c] ELSE << >>)

Labels(recs) == {recs[i].category : i \in 1..Len(recs)}

\* C1: a category that raises contributes no record to the accumulated
\* catalog, a category that does not raise contributes every record its
\* extraction returned, and once the loop is left every category has been
\* attempted, whichever categories raised.
C1_CategoryIsolation ==
    /\ \A c \in Cats :
          raised[c] # "none" => OfCategory(all_products, c) = << >>
    /\ \A c \in Cats :
          (c < idx /\ raised[c] = "none") => OfCategory(all_products, c) = extracted[c]
    /\ all_products = Handed(IF InLoop THEN idx - 1 ELSE NumCategories)
    /\ AfterLoop => \A c \in Cats : attempts[c] = 1
    /\ pc = "crashed" =>
          \/ \A c \in Cats : attempts[c] = 0
          \/ \A c \in Cats : attempts[c] = 1

\* C1 witness: 2 records, a readiness timeout, 3 records: 5 records with the
\* labels of the first and the third category
C1_Witness ==
    /\ pc = "done"
    /\ Len(extracted[1]) = 2
    /\ raised[2] = "wait"
    /\ Len(extracted[3]) = 3
    /\ Len(all_products) = 5
    /\ Labels(all_products) = {CATEGORIES[1], CATEGORIES[3]}

\* C2: while scroll_to_load_all runs, one scroll command has been issued per
\* measurement after the first and no two consecutive measurements are equal;
\* when it returns, the last two measurements are equal and they are the only
\* consecutive pair that is: the scroll commands issued are exactly the least
\* k >= 1 with h_k = h_(k-1).
C2_StopsAtFirstRepeat ==
    pc \in {"scroll", "query"} =>
        /\ scrolls = Len(hist) - 1
        /\ \A k \in 2..Len(hist) :
              hist[k] = hist[k - 1] => (k = Len(hist) /\ pc = "query")
        /\ pc = "query" => (Len(hist) >= 2 /\ hist[Len(hist)] = hist[Len(hist) - 1])

\* C2 witness: the measurements grow once and repeat (the shape of
\* [100, 300, 300]): the loop has returned after exactly 2 scroll commands
C2_Witness ==
    /\ pc = "query"
    /\ hist = <<0, MaxHeight, MaxHeight>>
    /\ scrolls = 2

\* C3 (as claimed): a run that opened the browser never ends without
\* browser.close() having been awaited.
C3_ClosedOnEveryExit ==
    (pc \in {"done", "crashed"} /\ browser # "none") => browser = "closed"

Merged == pc \in {"write", "close", "done", "crashed"}

Names(recs) == {recs[i].name : i \in 1..Len(recs)}

Records(recs) == {recs[i] : i \in 1..Len(recs)}

DistinctNames(recs) ==
    \A i, j \in 1..Len(recs) : recs[i].name = recs[j].name => i = j

\* C4: the merged list has exactly one record per name of the accumulated
\* list, each the last accumulated record of its name; an accumulated list of
\* distinct names is merged to the same set of records; merging the merged
\* list changes nothing.
C4_MergeLastWins ==
    Merged =>
        /\ DistinctNames(unique_products)
        /\ Names(unique_products) = Names(all_products)
        /\ \A i \in 1..Len(unique_products) :
              \E j \in 1..Len(all_products) :
                 /\ all_products[j] = unique_products[i]
                 /\ \A k \in (j + 1)..Len(all_products) :
                       all_products[k].name # unique_products[i].name
        /\ DistinctNames(all_products) =>
              Records(unique_products) = Records(all_products)
        /\ MergeByName(unique_products) = unique_products

\* C4 witness: two records of one name that differ, and a third name: the
\* merge collapsed three records to two
C4_Witness ==
    /\ Merged
    /\ Len(all_products) = 3
    /\ all_products[1].name = all_products[3].name
    /\ all_products[1] # all_products[3]
    /\ Len(unique_products) = 2

SentinelNamed(card) == ResolveName(card) = Sentinel

Raises(card) == card.fault # "none"

Done(n) == {i \in 1..Len(cards) : i <= n}

NoSentinelName(recs) == \A i \in 1..Len(recs) : recs[i].name # Sentinel

NoSentinelAnywhere ==
    /\ NoSentinelName(products)
    /\ NoSentinelName(all_products)
    /\ NoSentinelName(unique_products)
    /\ NoSentinelName(output)

\* C5 (as claimed): the records returned are the cards minus the cards whose
\* name is the sentinel, and no record is named "Unknown".
C5_OnlySentinelDropped ==
    /\ pc = "extract" =>
          Len(products) = (ci - 1)
              - Cardinality({i \in Done(ci - 1) : SentinelNamed(cards[i])})
    /\ NoSentinelAnywhere

\* C5 (amended): the records returned are the cards minus the cards whose
\* name is the sentinel or whose reading raises, and no record of the
\* extraction, the accumulated catalog, the merged catalog or the output is
\* named "Unknown".
C5_SentinelOrFaultDropped ==
    /\ pc = "extract" =>
          Len(products) = (ci - 1)
              - Cardinality({i \in Done(ci - 1) :
                                SentinelNamed(cards[i]) \/ Raises(cards[i])})
    /\ NoSentinelAnywhere

\* C5 witness: three cards read, one without a name element, one whose read
\* raises, one kept
C5_Witness ==
    /\ pc = "extract"
    /\ ci = 4
    /\ \E i \in 1..3 : ~cards[i].name.el /\ ~Raises(cards[i])
    /\ \E i \in 1..3 : Raises(cards[i]) /\ ~SentinelNamed(cards[i])
    /\ Len(products) = 1

\* the truncation of a decimal numeral to a number
RECURSIVE Number(_)
Number(ds) ==
    IF ds = << >> THEN 0
    ELSE 10 * Number(SubSeq(ds, 1, Len(ds) - 1)) + DigitVal(ds[Len(ds)])

\* an amount (digits, optional dot, digits) in cents, further decimals dropped
Cents(val) ==
    IF HasDot(val)
    THEN 100 * Number(BeforeDot(val)) + Number(TwoDigits(AfterDot(val)))
    ELSE 100 * Number(val)

MatchedEls(card) ==
    {i \in 1..Len(card.prices) : ElementMatch(card.prices[i]).found}

\* the amounts recovered from the price-tagged elements of a card, in cents
Amounts(card) == {Cents(ElementMatch(card.prices[i]).val) : i \in MatchedEls(card)}

Minimum(S) == CHOOSE x \in S : \A y \in S : x <= y

\* C6 (as claimed): the price of a record appended for a card with several
\* price-tagged elements that yield an amount (each above zero: a zero amount
\* is no price to the code) is the minimum of those amounts.
C6_MinimumWins ==
    [][(/\ pc = "extract"
        /\ ci <= Len(cards)
        /\ Cardinality(MatchedEls(cards[ci])) >= 2
        /\ 0 \notin Amounts(cards[ci])
        /\ Len(products') = Len(products) + 1)
       => Cents(Tail(products'[Len(products')].price)) = Minimum(Amounts(cards[ci]))]_vars

\* ^\$\d+\.\d{2}$
Canonical(price) ==
    LET n == Len(price)
    IN  /\ n >= 5
        /\ price[1] = "$"
        /\ \A i \in 2..(n - 3) : IsDigit(price[i])
        /\ price[n - 2] = "."
        /\ IsDigit(price[n - 1])
        /\ IsDigit(price[n])

CanonicalPrices(recs) == \A i \in 1..Len(recs) : Canonical(recs[i].price)

\* C7 (as claimed): every record appended by scrape_page_products, and so
\* every record accumulated, merged or written, has a price of the form
\* dollar sign, digits, dot, two digits.
C7_CanonicalPrice ==
    /\ CanonicalPrices(products)
    /\ CanonicalPrices(all_products)
    /\ CanonicalPrices(unique_products)
    /\ CanonicalPrices(output)

\* C8: the step that reads a card whose read raises appends nothing, keeps
\* the records appended so far, goes on to the next card of the same list
\* and leaves the category's error log and the accumulated catalog alone;
\* the step that reads a later usable card appends its record.
C8_FaultSkipsOneItem ==
    [][(pc = "extract" /\ ci <= Len(cards))
       => IF Raises(cards[ci])
          THEN /\ products' = products
               /\ cards' = cards
               /\ ci' = ci + 1
               /\ pc' = "extract"
               /\ idx' = idx
               /\ raised' = raised
               /\ all_products' = all_products
          ELSE /\ cards' = cards
               /\ ci' = ci + 1
               /\ SubSeq(products', 1, Len(products)) = products
               /\ Len(products') =
                     Len(products) + (IF SentinelNamed(cards[ci]) THEN 0 ELSE 1)]_vars

\* C8 witness: three cards read, the read of the second raised, the first and
\* the third gave a record
C8_Witness ==
    /\ pc = "extract"
    /\ Len(cards) = 3
    /\ ci = 4
    /\ Raises(cards[2])
    /\ ~Raises(cards[1]) /\ ~SentinelNamed(cards[1])
    /\ ~Raises(cards[3]) /\ ~SentinelNamed(cards[3])
    /\ Len(products) = 2

LastTwoEqual(h) == Len(h) >= 2 /\ h[Len(h)] = h[Len(h) - 1]

\* C9: no step of the scroll loop leaves it unless the measurement it made
\* equals the one before (or a page command raised), and a step whose
\* measurement differs stays in the loop, in the same category, with nothing
\* written, however many measurements were made; on a page that never
\* shrinks, whose height is bounded, the loop is eventually left.
C9_ScrollUnbounded ==
    /\ [](pc = "scroll" => (writes = 0 /\ output = << >> /\ attempts[idx] = 1))
    /\ [][pc = "scroll"
          => IF raised'[idx] # "none" THEN TRUE
             ELSE IF LastTwoEqual(hist') THEN pc' = "query"
             ELSE /\ pc' = "scroll"
                  /\ idx' = idx
                  /\ scrolls' = scrolls + 1
                  /\ catalog' = catalog]_vars
    /\ ((pc = "scroll" /\ mono) ~> (pc # "scroll"))

\* C9 witness: a page whose height differed on every measurement, as many as
\* the mock answers: the run is still scrolling its first category
C9_Witness ==
    /\ pc = "scroll"
    /\ idx = 1
    /\ ~mono
    /\ scrolls = MaxScrolls
    /\ \A k \in 2..Len(hist) : hist[k] # hist[k - 1]

IsPrefix(s, t) == Len(s) <= Len(t) /\ SubSeq(t, 1, Len(s)) = s

Finished(c) == raised[c] # "none" \/ (steps[c] = StepOrder /\ c < idx)

\* C10: every category is attempted at most once, in configuration order and
\* only when the one before it is finished; the steps of a category are an
\* initial part of navigate, age gate, readiness wait, scroll, extract, and
\* end with the step that raised, if one did; the merge and the write, which
\* happens at most once, come after every category has been attempted and
\* finished.
C10_SequentialNoRetry ==
    /\ \A c \in Cats : attempts[c] = (IF steps[c] = << >> THEN 0 ELSE 1)
    /\ \A c, d \in Cats :
          (c < d /\ attempts[d] = 1) => (attempts[c] = 1 /\ Finished(c))
    /\ \A c \in Cats : IsPrefix(steps[c], StepOrder)
    /\ \A c \in Cats :
          raised[c] # "none" =>
              (steps[c] # << >> /\ steps[c][Len(steps[c])] = raised[c])
    /\ pc = "goto" => attempts[idx] = 0
    /\ writes <= 1
    /\ (AfterLoop \/ writes > 0 \/ unique_products # << >>) =>
          \A c \in Cats : attempts[c] = 1 /\ Finished(c)

\* C10 witness: a finished run whose first category failed to load, whose
\* second timed out waiting for cards and whose third went through all steps
C10_Witness ==
    /\ pc = "done"
    /\ raised[1] = "goto"
    /\ steps[2] = <<"goto", "gate", "wait">>
    /\ raised[2] = "wait"
    /\ steps[3] = StepOrder
    /\ raised[3] = "none"
    /\ writes = 1

=============================================================================
